---- MODULE Spec2Model ----
(***************************************************************************)
(* Model of the expression grapher (main_noannotate.py): tokenizer,        *)
(* recursive-descent parser, tree-walking evaluator and the draw loop that *)
(* samples the parsed equation.                                            *)
(*                                                                         *)
(* Text is a sequence of one-character strings.  A float is tracked        *)
(* exactly while it is an integer of magnitude at most Cap; any other      *)
(* float (a fraction, a transcendental result, a large number) is the      *)
(* outcome "untracked", about which the model asserts nothing.             *)
(***************************************************************************)
EXTENDS Integers, Sequences, FiniteSets, TLC

VARIABLES
  src,        \* the text read by input()
  code,       \* tokenize: the text not yet consumed
  tokens,     \* tokenize: the tokens appended so far; afterwards parse's argument
  pc,         \* "tokenize", "parse", "draw", "running", "crashed", "call"
  eq,         \* the parsed equation (NoNode before parse returns)
  exc,        \* the uncaught exception that ended the program (NoExc if none)
  x,          \* draw: the pixel column of the current sample
  noprev,     \* draw: TRUE when the next plotted sample starts a new stroke
  plotted,    \* draw: pixel columns whose sample produced a value
  skipped,    \* draw: pixel columns whose sample was skipped
  variables,  \* the bindings passed to eval_node by a direct caller
  hist,       \* outcomes of the parse / eval_node calls made by a direct caller
  given       \* the pieces the token list was assembled from (NoGiven for a text)

vars == <<src, code, tokens, pc, eq, exc, x, noprev, plotted, skipped,
          variables, hist, given>>

----------------------------------------------------------------------------
(* Bounds *)

MaxLen == 4      \* longest enumerated input text
MaxOps == 2      \* most operators in an enumerated group
MaxNest == 1     \* most expressions enclosing an enumerated division
MaxArgs == 2     \* most arguments in an enumerated call
MaxToks == 4     \* longest enumerated token list
MaxCalls == 3    \* most parse / eval_node calls made by a direct caller
WIDTH == 4       \* window width in pixels (800 in the source), scaled down

----------------------------------------------------------------------------
(* Tokenizer *)

letters == {"a","b","c","d","e","f","g","h","i","j","k","l","m",
            "n","o","p","q","r","s","t","u","v","w","x","y","z"}
digits == {"0","1","2","3","4","5","6","7","8","9"}
numbers == digits \cup {"."}

Token(type, value) == [type |-> type, value |-> value]

RECURSIVE get_ident_loop(_, _)
get_ident_loop(out, c) ==
  IF Head(c) \in letters
  THEN LET out2 == Append(out, Head(c))
           c2 == Tail(c)
       IN IF Len(c2) = 0 THEN <<out2, c2>> ELSE get_ident_loop(out2, c2)
  ELSE <<out, c>>

\* get_ident without its loop: one letter per call.
get_ident_one(c) == <<<<Head(c)>>, Tail(c)>>

\* get_ident returning the text it was given instead of what is left of it.
get_ident_keep(c) == <<get_ident_loop(<<>>, c)[1], c>>

get_ident(c) == get_ident_loop(<<>>, c)

RECURSIVE get_num_loop(_, _)
get_num_loop(out, c) ==
  IF Head(c) \in numbers
  THEN LET out2 == Append(out, Head(c))
           c2 == Tail(c)
       IN IF Len(c2) = 0 THEN <<out2, c2>> ELSE get_num_loop(out2, c2)
  ELSE <<out, c>>

get_num(c) == get_num_loop(<<>>, c)

NoExc == [type |-> "", at |-> ""]
Raise(type, at) == [type |-> type, at |-> at]

\* The single-character branches of tokenize's if/elif chain.
SingleType(char) ==
  CASE char = "(" -> "LPAREN"
    [] char = ")" -> "RPAREN"
    [] char = "{" -> "LCURLY"
    [] char = "}" -> "RCURLY"
    [] char \in {"+", "-", "*", "/", "=", "^"} -> "OPERATOR"
    [] OTHER -> ""

TokSingle(type) ==
  /\ pc = "tokenize"
  /\ Len(code) > 0
  /\ SingleType(Head(code)) = type
  /\ tokens' = Append(tokens, Token(type, <<Head(code)>>))
  /\ code' = Tail(code)
  /\ UNCHANGED <<src, pc, eq, exc, x, noprev, plotted, skipped, variables, hist, given>>

TokLParen == TokSingle("LPAREN")
TokRParen == TokSingle("RPAREN")
TokLCurly == TokSingle("LCURLY")
TokRCurly == TokSingle("RCURLY")
TokOperator == TokSingle("OPERATOR")

TokSpace ==
  /\ pc = "tokenize"
  /\ Len(code) > 0
  /\ Head(code) = " "
  /\ code' = Tail(code)
  /\ UNCHANGED <<src, tokens, pc, eq, exc, x, noprev, plotted, skipped, variables, hist, given>>

TokIdent ==
  /\ pc = "tokenize"
  /\ Len(code) > 0
  /\ Head(code) \in letters
  /\ LET r == get_ident(code)
     IN /\ tokens' = Append(tokens, Token("IDENT", r[1]))
        /\ code' = r[2]
  /\ UNCHANGED <<src, pc, eq, exc, x, noprev, plotted, skipped, variables, hist, given>>

TokNumber ==
  /\ pc = "tokenize"
  /\ Len(code) > 0
  /\ Head(code) \in numbers
  /\ LET r == get_num(code)
     IN /\ tokens' = Append(tokens, Token("NUMBER", r[1]))
        /\ code' = r[2]
  /\ UNCHANGED <<src, pc, eq, exc, x, noprev, plotted, skipped, variables, hist, given>>

\* raise SyntaxError("unknown character: " + char): nothing catches it.
TokUnknown ==
  /\ pc = "tokenize"
  /\ Len(code) > 0
  /\ SingleType(Head(code)) = ""
  /\ Head(code) \notin {" "} \cup letters \cup numbers
  /\ pc' = "crashed"
  /\ exc' = Raise("SyntaxError", "tokenize")
  /\ UNCHANGED <<src, code, tokens, eq, x, noprev, plotted, skipped, variables, hist, given>>

\* len(code) == 0: tokenize returns the list, which is handed to parse.
TokReturn ==
  /\ pc = "tokenize"
  /\ Len(code) = 0
  /\ pc' = "parse"
  /\ UNCHANGED <<src, code, tokens, eq, exc, x, noprev, plotted, skipped, variables, hist, given>>

Tokenize ==
  \/ TokLParen \/ TokRParen \/ TokLCurly \/ TokRCurly \/ TokOperator
  \/ TokSpace \/ TokIdent \/ TokNumber \/ TokUnknown \/ TokReturn

----------------------------------------------------------------------------
(* Floats *)

Cap == 32768     \* largest magnitude the model tracks exactly

Val(n) == [k |-> "val", v |-> n, e |-> ""]
Untracked == [k |-> "untracked", v |-> 0, e |-> ""]
Exc(e) == [k |-> "exc", v |-> 0, e |-> e]

Abs(n) == IF n < 0 THEN -n ELSE n
Clamp(n) == IF Abs(n) <= Cap THEN Val(n) ELSE Untracked

Count(s, c) == Cardinality({i \in DOMAIN s : s[i] = c})

DigitVal(d) ==
  CASE d = "0" -> 0 [] d = "1" -> 1 [] d = "2" -> 2 [] d = "3" -> 3 [] d = "4" -> 4
    [] d = "5" -> 5 [] d = "6" -> 6 [] d = "7" -> 7 [] d = "8" -> 8 [] d = "9" -> 9

\* The value of a run of digits, Untracked once it exceeds Cap.
RECURSIVE DigitsVal(_, _)
DigitsVal(s, acc) ==
  IF s = <<>> THEN Val(acc)
  ELSE LET n == acc * 10 + DigitVal(Head(s))
       IN IF n > Cap THEN Untracked ELSE DigitsVal(Tail(s), n)

\* float(literal) for a literal made of digits and '.': ValueError unless it
\* holds at most one '.' and at least one digit.
pyfloat(lit) ==
  IF Count(lit, ".") > 1 \/ Count(lit, ".") = Len(lit)
  THEN Exc("ValueError")
  ELSE LET dot == IF Count(lit, ".") = 0 THEN Len(lit) + 1
                  ELSE CHOOSE i \in DOMAIN lit : lit[i] = "."
           whole == SubSeq(lit, 1, dot - 1)
           frac == SubSeq(lit, dot + 1, Len(lit))
       IN IF \E i \in DOMAIN frac : frac[i] # "0"
          THEN Untracked
          ELSE DigitsVal(whole, 0)

----------------------------------------------------------------------------
(* Parser *)

Node(type, value) == [type |-> type, value |-> value]
NoNode == Node("NONE", <<>>)

POk(rest, node) == [exc |-> "", rest |-> rest, node |-> node]
PErr(e) == [exc |-> e, rest |-> <<>>, node |-> NoNode]

\* tokens[1:]
Slice1(toks) == IF Len(toks) = 0 THEN <<>> ELSE Tail(toks)

\* A group's fold written with arithmetic precedence: * and / bind tighter
\* than a preceding + or -.
FoldPrecedence(op, val, right) ==
  IF /\ val.type = "EXPR"
     /\ op \in {<<"*">>, <<"/">>}
     /\ val.value[1] \in {<<"+">>, <<"-">>}
  THEN Node("EXPR", <<val.value[1], val.value[2],
                      Node("EXPR", <<op, val.value[3], right>>)>>)
  ELSE Node("EXPR", <<op, val, right>>)

\* val = Node(NodeType.EXPR, (op, val, right))
Fold(op, val, right) == Node("EXPR", <<op, val, right>>)

RECURSIVE parse(_)
RECURSIVE parse_group(_, _)
RECURSIVE parse_call(_, _, _)

\* The while loop of the LPAREN branch, entered with tok = tokens[0].
parse_group(toks, val) ==
  IF Len(toks) = 0 THEN PErr("IndexError")
  ELSE LET tok == toks[1]
       IN IF tok.type = "RPAREN"
          THEN POk(Slice1(toks), val)
          ELSE LET r == parse(Slice1(toks))
               IN IF r.exc # "" THEN r
                  ELSE parse_group(r.rest, Fold(tok.value, val, r.node))

\* The while loop of the LCURLY branch and the return that follows it.
parse_call(toks, fn_name, params) ==
  IF Len(toks) = 0 THEN PErr("IndexError")
  ELSE IF toks[1].type = "RCURLY"
       THEN POk(Slice1(toks), Node("CALL", <<fn_name, params>>))
       ELSE LET r == parse(toks)
            IN IF r.exc # "" THEN r
               ELSE parse_call(r.rest, fn_name, Append(params, r.node))

parse(toks) ==
  IF Len(toks) = 0 THEN PErr("IndexError")
  ELSE LET tok == toks[1]
       IN CASE tok.type = "IDENT" ->
                 POk(Slice1(toks), Node("VARIABLE", tok.value))
            [] tok.type = "NUMBER" ->
                 LET f == pyfloat(tok.value)
                 IN IF f.k = "exc" THEN PErr(f.e)
                    ELSE POk(Slice1(toks), Node("NUMBER", f))
            [] tok.type = "LPAREN" ->
                 LET r == parse(Slice1(toks))
                 IN IF r.exc # "" THEN r ELSE parse_group(r.rest, r.node)
            [] tok.type = "LCURLY" ->
                 LET t1 == Slice1(toks)
                 IN IF Len(t1) = 0 THEN PErr("IndexError")
                    ELSE parse_call(Slice1(t1), t1[1].value, <<>>)
            [] OTHER -> PErr("SyntaxError")

----------------------------------------------------------------------------
(* Functions *)

sqrt == <<"s", "q", "r", "t">>
sin == <<"s", "i", "n">>
cos == <<"c", "o", "s">>
tan == <<"t", "a", "n">>
fact == <<"f", "a", "c", "t">>

functions == {sqrt, sin, cos, tan, fact}

RECURSIVE Factorial(_, _)
Factorial(n, acc) ==
  IF n <= 1 THEN Val(acc)
  ELSE IF acc * n > Cap THEN Untracked ELSE Factorial(n - 1, acc * n)

\* math.sqrt: ValueError on a negative argument.
pysqrt(a) ==
  IF a < 0 THEN Exc("ValueError")
  ELSE IF \E r \in 0..a : r * r = a
       THEN Val(CHOOSE r \in 0..a : r * r = a)
       ELSE Untracked

\* math.gamma(a) * a: gamma raises ValueError at zero and the negative integers.
pyfact(a) == IF a <= 0 THEN Exc("ValueError") ELSE Factorial(a, 1)

\* functions[fn_name](inp): every entry reads inp[0] and nothing else.
Apply(fn_name, inp) ==
  IF Len(inp) = 0 THEN Exc("IndexError")
  ELSE LET a == inp[1]
       IN CASE fn_name = sqrt -> pysqrt(a)
            [] fn_name = sin -> IF a = 0 THEN Val(0) ELSE Untracked
            [] fn_name = cos -> IF a = 0 THEN Val(1) ELSE Untracked
            [] fn_name = tan -> IF a = 0 THEN Val(0) ELSE Untracked
            [] fn_name = fact -> pyfact(a)

----------------------------------------------------------------------------
(* Evaluator *)

RECURSIVE PowAcc(_, _, _)
PowAcc(l, r, acc) ==
  IF r = 0 THEN Val(acc)
  ELSE IF Abs(acc * l) > Cap THEN Untracked ELSE PowAcc(l, r - 1, acc * l)

\* left ** right
Pow(l, r) ==
  IF r < 0
  THEN CASE l = 0 -> Exc("ZeroDivisionError")
         [] l = 1 -> Val(1)
         [] l = -1 -> Val(IF r % 2 = 0 THEN 1 ELSE -1)
         [] OTHER -> Untracked
  ELSE CASE l = 0 -> Val(IF r = 0 THEN 1 ELSE 0)
         [] l = 1 -> Val(1)
         [] l = -1 -> Val(IF r % 2 = 0 THEN 1 ELSE -1)
         [] OTHER -> PowAcc(l, r, 1)

\* left / right as IEEE 754 defines it: a zero divisor yields inf or nan.
TrueDivIEEE(l, r) ==
  IF r = 0 THEN Untracked
  ELSE IF Abs(l) % Abs(r) = 0
       THEN Val((IF (l < 0) = (r < 0) THEN 1 ELSE -1) * (Abs(l) \div Abs(r)))
       ELSE Untracked

\* left / right
TrueDiv(l, r) ==
  IF r = 0 THEN Exc("ZeroDivisionError")
  ELSE IF Abs(l) % Abs(r) = 0
       THEN Val((IF (l < 0) = (r < 0) THEN 1 ELSE -1) * (Abs(l) \div Abs(r)))
       ELSE Untracked

\* The operator chain of the EXPR branch.
BinOp(op, l, r) ==
  CASE op = <<"+">> -> Clamp(l + r)
    [] op = <<"-">> -> Clamp(l - r)
    [] op = <<"*">> -> Clamp(l * r)
    [] op = <<"/">> -> TrueDiv(l, r)
    [] op = <<"^">> -> Pow(l, r)
    [] OTHER -> Exc("SyntaxError")

RECURSIVE eval_node(_, _)
RECURSIVE eval_params(_, _, _)

\* [eval_node(param, variables) for param in params], left to right.
eval_params(params, vs, acc) ==
  IF params = <<>> THEN [ok |-> TRUE, inp |-> acc, out |-> Untracked]
  ELSE LET o == eval_node(Head(params), vs)
       IN IF o.k # "val" THEN [ok |-> FALSE, inp |-> <<>>, out |-> o]
          ELSE eval_params(Tail(params), vs, Append(acc, o.v))

eval_node(node, vs) ==
  CASE node.type = "NUMBER" -> node.value
    [] node.type = "VARIABLE" ->
         IF node.value \in DOMAIN vs THEN vs[node.value] ELSE Exc("KeyError")
    [] node.type = "EXPR" ->
         LET left == eval_node(node.value[2], vs)
         IN IF left.k # "val" THEN left
            ELSE LET right == eval_node(node.value[3], vs)
                 IN IF right.k # "val" THEN right
                    ELSE BinOp(node.value[1], left.v, right.v)
    [] node.type = "CALL" ->
         IF node.value[1] \in functions
         THEN LET ps == eval_params(node.value[2], vs, <<>>)
              IN IF ps.ok THEN Apply(node.value[1], ps.inp) ELSE ps.out
         ELSE Exc("NameError")
    [] OTHER -> Exc("ValueError")

----------------------------------------------------------------------------
(* Parse and draw, as the program runs them *)

X == <<"x">>

\* (_, eq) = parse(tokenize(src)): an exception of parse ends the program.
Parse ==
  /\ pc = "parse"
  /\ LET r == parse(tokens)
     IN IF r.exc # ""
        THEN /\ pc' = "crashed"
             /\ exc' = Raise(r.exc, "parse")
             /\ UNCHANGED <<eq, x, noprev>>
        ELSE /\ pc' = "draw"
             /\ eq' = r.node
             /\ x' = 0
             /\ noprev' = TRUE
             /\ UNCHANGED exc
  /\ UNCHANGED <<src, code, tokens, plotted, skipped, variables, hist, given>>

\* (x - offx) / scale with offx = WIDTH / 2 and scale = WIDTH / 20.
screenx_to_coord(px) ==
  LET num == 20 * px - 10 * WIDTH
  IN IF num % WIDTH = 0 THEN Val(num \div WIDTH) ELSE Untracked

\* The exceptions draw's try statement names.
Caught == {"ZeroDivisionError", "ValueError"}

Sample == eval_node(eq, X :> screenx_to_coord(x))

\* yv was computed: the sample starts or extends a stroke.
DrawPlot ==
  /\ pc = "draw"
  /\ x < WIDTH
  /\ Sample.k \in {"val", "untracked"}
  /\ plotted' = plotted \cup {x}
  /\ noprev' = FALSE
  /\ x' = x + 1
  /\ UNCHANGED <<src, code, tokens, pc, eq, exc, skipped, variables, hist, given>>

\* except (ZeroDivisionError, ValueError): noprev = True; continue
DrawSkip ==
  /\ pc = "draw"
  /\ x < WIDTH
  /\ \/ Sample.k = "exc" /\ Sample.e \in Caught
     \/ Sample.k = "untracked"
  /\ skipped' = skipped \cup {x}
  /\ noprev' = TRUE
  /\ x' = x + 1
  /\ UNCHANGED <<src, code, tokens, pc, eq, exc, plotted, variables, hist, given>>

\* Any other exception leaves draw and ends the program.
DrawRaise ==
  /\ pc = "draw"
  /\ x < WIDTH
  /\ \/ Sample.k = "exc" /\ Sample.e \notin Caught
     \/ Sample.k = "untracked"
  /\ pc' = "crashed"
  /\ exc' = Raise(IF Sample.k = "exc" THEN Sample.e ELSE "untracked", "draw")
  /\ UNCHANGED <<src, code, tokens, eq, x, noprev, plotted, skipped, variables,
                 hist, given>>

\* The for loop is exhausted: pygame.display.update(), then the main loop.
DrawDone ==
  /\ pc = "draw"
  /\ x = WIDTH
  /\ pc' = "running"
  /\ UNCHANGED <<src, code, tokens, eq, exc, x, noprev, plotted, skipped, variables,
                 hist, given>>

Draw == DrawPlot \/ DrawSkip \/ DrawRaise \/ DrawDone

----------------------------------------------------------------------------
(* The program on an input text *)

NoGiven == [kind |-> "text"]

Chars == {"(", ")", "{", "}", "+", "=", "x", "1", ".", " ", "#"}

Texts == UNION {[1..n -> Chars] : n \in 0..MaxLen}

\* Sample equations, among them those of main.py and of the documentation.
Examples ==
  { <<"{","s","q","r","t"," ","x","}">>,
    <<"(","1"," ","+"," ","2",")">>,
    <<"(","2"," ","+"," ","3"," ","*"," ","4",")">>,
    <<"(","x",")">>,
    <<"(","y",")">>,
    <<"{","f","o","o"," ","x","}">>,
    <<"{","s","q","r","t","}">>,
    <<"(","1"," ","/"," ","0",")">>,
    <<"(","1"," ","/"," ","x",")">>,
    <<"(","1","+",")">>,
    <<"(","x"," ","=","1",")">>,
    <<"(","x"," ","2"," ","3",")">>,
    <<"x","#">>,
    <<"(","X",")">> }

Init ==
  /\ src \in Texts \cup Examples
  /\ code = src
  /\ tokens = <<>>
  /\ pc = "tokenize"
  /\ eq = NoNode
  /\ exc = NoExc
  /\ x = 0
  /\ noprev = TRUE
  /\ plotted = {}
  /\ skipped = {}
  /\ variables = <<>>
  /\ hist = <<>>
  /\ given = NoGiven

Next == Tokenize \/ Parse \/ Draw

Spec == Init /\ [][Next]_vars

----------------------------------------------------------------------------
(* parse and eval_node called directly, as main.py calls them *)

\* What parse leaves in the list it was passed: the parameter is only indexed
\* and sliced, and every assignment to it rebinds the local name.
tokens_after_pop(toks) == Slice1(toks)
tokens_after_parse(toks) == toks

\* What eval_node leaves in the bindings it was passed: they are only read.
variables_after_eval(vs) == vs

\* (_, ast) = parse(...)
CallParse ==
  /\ pc = "call"
  /\ Len(hist) < MaxCalls
  /\ LET r == parse(tokens)
     IN /\ hist' = Append(hist, [op |-> "parse", exc |-> r.exc, node |-> r.node,
                                 out |-> Untracked])
        /\ eq' = IF r.exc = "" THEN r.node ELSE eq
  /\ tokens' = tokens_after_parse(tokens)
  /\ UNCHANGED <<src, code, pc, exc, x, noprev, plotted, skipped, variables, given>>

\* print(eval_node(ast, {"x": 4}))
CallEval ==
  /\ pc = "call"
  /\ Len(hist) < MaxCalls
  /\ eq # NoNode
  /\ hist' = Append(hist, [op |-> "eval", exc |-> "", node |-> eq,
                           out |-> eval_node(eq, variables)])
  /\ variables' = variables_after_eval(variables)
  /\ UNCHANGED <<src, code, tokens, pc, eq, exc, x, noprev, plotted, skipped, given>>

NextCall == CallParse \/ CallEval

LP == Token("LPAREN", <<"(">>)
RP == Token("RPAREN", <<")">>)
LC == Token("LCURLY", <<"{">>)
RC == Token("RCURLY", <<"}">>)
Num(d) == Token("NUMBER", <<d>>)
Id(name) == Token("IDENT", name)
Op(c) == Token("OPERATOR", <<c>>)

Operators == {Op("+"), Op("*"), Op("/"), Op("="), Op("^")}

RECURSIVE Concat(_)
Concat(ss) == IF ss = <<>> THEN <<>> ELSE Head(ss) \o Concat(Tail(ss))

\* The tokens of ( e1 op1 e2 ... opn e(n+1) ).
GroupTokens(es, ops) ==
  <<LP>> \o es[1]
         \o Concat([i \in 1..Len(ops) |-> <<ops[i]>> \o es[i + 1]])
         \o <<RP>>

\* The tokens of { f a1 ... an }.
CallTokens(f, args) == <<LC, Id(f)>> \o Concat(args) \o <<RC>>

InitCall(g, toks, vs) ==
  /\ given = g
  /\ tokens = toks
  /\ variables = vs
  /\ pc = "call"
  /\ src = <<>>
  /\ code = <<>>
  /\ eq = NoNode
  /\ exc = NoExc
  /\ x = 0
  /\ noprev = TRUE
  /\ plotted = {}
  /\ skipped = {}
  /\ hist = <<>>

Bindings == {<<>>, X :> Val(4), X :> Val(0)}

(* Groups *)

GroupOperands ==
  { <<Num("2")>>, <<Num("3")>>, <<Num("4")>>, <<LP, Id(X), Op("-"), Num("1"), RP>> }

InitFold ==
  \E n \in 0..MaxOps :
    \E es \in [1..(n + 1) -> GroupOperands], ops \in [1..n -> Operators] :
      InitCall([kind |-> "group", es |-> es, ops |-> ops],
               GroupTokens(es, ops), X :> Val(4))

SpecFold == InitFold /\ [][NextCall]_vars

(* Divisions inside enclosing expressions *)

Y == <<"y">>
foo == <<"f", "o", "o">>

DivOperands ==
  { <<Num("0")>>, <<Num("2")>>, <<Id(X)>>,
    <<LP, Num("2"), Op("-"), Num("2"), RP>>,
    <<LP, Num("1"), Op("/"), Num("2"), RP>>,
    <<LC, Id(sqrt), Num("4"), RC>> }

SiblingOperands == { <<Num("2")>>, <<Num("0")>>, <<Id(Y)>> }

\* One enclosing expression: (e op o), (o op e), {f e} or {f o e}.
Enclosings ==
  [kind : {"binL", "binR"}, op : {Op("+"), Op("/")}, o : SiblingOperands, f : {sqrt}]
  \cup
  [kind : {"call1"}, op : {Op("+")}, o : {<<Num("2")>>}, f : {sqrt, foo}]
  \cup
  [kind : {"call2"}, op : {Op("+")}, o : SiblingOperands, f : {sqrt, foo}]

Enclose(e, c) ==
  CASE c.kind = "binL" -> GroupTokens(<<e, c.o>>, <<c.op>>)
    [] c.kind = "binR" -> GroupTokens(<<c.o, e>>, <<c.op>>)
    [] c.kind = "call1" -> CallTokens(c.f, <<e>>)
    [] c.kind = "call2" -> CallTokens(c.f, <<c.o, e>>)

\* ctxs[1] is the innermost enclosing expression.
RECURSIVE EncloseAll(_, _)
EncloseAll(e, ctxs) ==
  IF ctxs = <<>> THEN e ELSE EncloseAll(Enclose(e, Head(ctxs)), Tail(ctxs))

InitDiv ==
  \E l \in DivOperands, r \in DivOperands, n \in 0..MaxNest, vs \in Bindings :
    \E ctxs \in [1..n -> Enclosings] :
      InitCall([kind |-> "div", l |-> l, r |-> r, ctxs |-> ctxs],
               EncloseAll(GroupTokens(<<l, r>>, <<Op("/")>>), ctxs), vs)

SpecDiv == InitDiv /\ [][NextCall]_vars

(* Calls of the registered functions *)

ArgOperands ==
  { <<Num("4")>>, <<Num("0")>>, <<Id(X)>>, <<Id(Y)>>,
    <<LP, Num("1"), Op("/"), Num("0"), RP>> }

InitArgs ==
  \E f \in functions, n \in 0..MaxArgs, vs \in Bindings :
    \E args \in [1..n -> ArgOperands] :
      InitCall([kind |-> "args", f |-> f, args |-> args],
               CallTokens(f, args), vs)

SpecArgs == InitArgs /\ [][NextCall]_vars

(* Arbitrary token lists *)

TokenAlphabet == {LP, RP, LC, RC, Op("/"), Num("0"), Id(X), Id(sqrt)}

TokenLists == UNION {[1..n -> TokenAlphabet] : n \in 0..MaxToks}

InitPure ==
  \E toks \in TokenLists, vs \in Bindings :
    InitCall([kind |-> "pure", tokens |-> toks, variables |-> vs], toks, vs)

SpecPure == InitPure /\ [][NextCall]_vars

----------------------------------------------------------------------------
(* Properties *)

Returned(stage) ==
  CASE stage = "tokenize" -> pc \in {"parse", "draw", "running"}
                             \/ (pc = "crashed" /\ exc.at # "tokenize")
    [] stage = "parse" -> pc \in {"draw", "running"}
                          \/ (pc = "crashed" /\ exc.at = "draw")

CrashedAt(stage) == pc = "crashed" /\ exc.at = stage

ParseCalls == {i \in DOMAIN hist : hist[i].op = "parse"}
EvalCalls == {i \in DOMAIN hist : hist[i].op = "eval"}

OperandNode(e) == parse(e).node
OperandValue(e) == eval_node(OperandNode(e), variables)

(* C1 *)

RECURSIVE LeftFold(_, _, _)
LeftFold(es, ops, n) ==
  IF n = 0 THEN OperandNode(es[1])
  ELSE Node("EXPR", <<ops[n].value, LeftFold(es, ops, n - 1), OperandNode(es[n + 1])>>)

RECURSIVE LeftFoldValue(_, _, _)
LeftFoldValue(es, ops, n) ==
  IF n = 0 THEN OperandValue(es[1])
  ELSE LET acc == LeftFoldValue(es, ops, n - 1)
       IN IF acc.k # "val" THEN acc
          ELSE LET r == OperandValue(es[n + 1])
               IN IF r.k # "val" THEN r ELSE BinOp(ops[n].value, acc.v, r.v)

Is234 ==
  /\ given.es = <<<<Num("2")>>, <<Num("3")>>, <<Num("4")>>>>
  /\ given.ops = <<Op("+"), Op("*")>>

\* C1: parse turns the group ( e1 op1 e2 ... opn e(n+1) ) into the left fold
\* EXPR(opn, ... EXPR(op1, e1, e2) ..., e(n+1)) whatever the operators are (e1
\* itself when n = 0) and consumes the whole group; evaluation follows the fold,
\* so (2 + 3 * 4) evaluates to 20.
C1_LeftFold ==
  given.kind = "group" =>
    /\ \A i \in ParseCalls :
         /\ hist[i].exc = ""
         /\ hist[i].node = LeftFold(given.es, given.ops, Len(given.ops))
    /\ \A i \in EvalCalls :
         /\ hist[i].out = LeftFoldValue(given.es, given.ops, Len(given.ops))
         /\ Is234 => hist[i].out = Val(20)

C1_Witness ==
  /\ given.kind = "group"
  /\ Is234
  /\ \E i \in EvalCalls : hist[i].out = Val(20)
  /\ eq = Node("EXPR", <<<<"*">>,
                         Node("EXPR", <<<<"+">>, Node("NUMBER", Val(2)),
                                                 Node("NUMBER", Val(3))>>),
                         Node("NUMBER", Val(4))>>)

(* C2 *)

Class(c) ==
  CASE c \in letters -> "IDENT"
    [] c \in numbers -> "NUMBER"
    [] c = " " -> "SPACE"
    [] SingleType(c) # "" -> SingleType(c)
    [] OTHER -> "UNKNOWN"

Accepted(text) == \A i \in DOMAIN text : Class(text[i]) # "UNKNOWN"

\* The positions at which a token starts: every single-character token, and the
\* first character of every maximal run of letters or of digits and '.'.
Starts(text) ==
  {i \in DOMAIN text :
     \/ Class(text[i]) \notin {"IDENT", "NUMBER", "SPACE", "UNKNOWN"}
     \/ /\ Class(text[i]) \in {"IDENT", "NUMBER"}
        /\ (i = 1 \/ Class(text[i - 1]) # Class(text[i]))}

RunEnd(text, i) ==
  IF Class(text[i]) \in {"IDENT", "NUMBER"}
  THEN CHOOSE j \in i..Len(text) :
         /\ \A k \in i..j : Class(text[k]) = Class(text[i])
         /\ (j = Len(text) \/ Class(text[j + 1]) # Class(text[i]))
  ELSE i

Lexemes(text) ==
  LET S == Starts(text)
      nth(n) == CHOOSE i \in S : Cardinality({j \in S : j < i}) = n - 1
  IN [n \in 1..Cardinality(S) |->
        Token(Class(text[nth(n)]), SubSeq(text, nth(n), RunEnd(text, nth(n))))]

\* C2: on a text over the accepted alphabet tokenize does not fail, and when it
\* returns it has consumed the whole text and produced, in source order, one
\* token per single-character symbol and one per maximal run of letters or of
\* digits and '.', the run being the literal; spaces produce nothing.
C2_Tokenize ==
  /\ Accepted(src) => ~CrashedAt("tokenize")
  /\ Returned("tokenize") => code = <<>> /\ tokens = Lexemes(src)

C2_Witness ==
  /\ pc = "parse"
  /\ src = <<"{","s","q","r","t"," ","x","}">>
  /\ tokens = <<LC, Id(sqrt), Id(X), RC>>

(* C3 *)

\* C3: a parse that runs out of tokens fails with the typed
\* UnexpectedEndOfInputError, and every failure of parse is a typed parse error,
\* never an out-of-range access.
C3_TypedParseErrors ==
  CrashedAt("parse") =>
    exc.type \in {"UnexpectedEndOfInputError", "SyntaxError", "ValueError"}

(* C4 *)

\* C4: a sample whose evaluation fails with a division by zero, an undefined
\* variable, an unknown function or a missing argument is skipped; the failure
\* does not end the program.
C4_DrawSkipsFailures ==
  CrashedAt("draw") =>
    exc.type \notin {"ZeroDivisionError", "KeyError", "NameError", "IndexError"}

(* C5 *)

\* The division is evaluated: every sibling evaluated before it yields a value
\* and every enclosing call names a registered function.
DivisionReached ==
  \A i \in DOMAIN given.ctxs :
    LET c == given.ctxs[i]
    IN /\ c.kind \in {"call1", "call2"} => c.f \in functions
       /\ c.kind \in {"binR", "call2"} => OperandValue(c.o).k = "val"

\* C5: when both operands of a division evaluate to a value, the division fails
\* with ZeroDivisionError exactly when the divisor is zero, it yields no value
\* then, and the failure reaches the caller of eval_node unchanged through the
\* enclosing expressions and calls.
C5_DivisionByZero ==
  given.kind = "div" =>
    \A i \in EvalCalls :
      (OperandValue(given.l).k = "val" /\ OperandValue(given.r).k = "val") =>
        /\ given.ctxs = <<>> =>
             (hist[i].out = Exc("ZeroDivisionError") <=> OperandValue(given.r).v = 0)
        /\ OperandValue(given.r).v = 0 => hist[i].out.k = "exc"
        /\ (OperandValue(given.r).v = 0 /\ DivisionReached) =>
             hist[i].out = Exc("ZeroDivisionError")

C5_Witness ==
  /\ given.kind = "div"
  /\ given.l = <<Num("2")>>
  /\ given.r = <<LP, Num("2"), Op("-"), Num("2"), RP>>
  /\ Len(given.ctxs) = 1
  /\ given.ctxs[1].kind = "call2"
  /\ given.ctxs[1].f = sqrt
  /\ \E i \in EvalCalls : hist[i].out = Exc("ZeroDivisionError")

(* C6 *)

ArgsAllValues == \A j \in DOMAIN given.args : OperandValue(given.args[j]).k = "val"

\* The result depends on the first argument alone.
C6_FirstArgumentOnly ==
  given.kind = "args" =>
    \A i \in EvalCalls :
      (ArgsAllValues /\ Len(given.args) >= 1) =>
        hist[i].out = Apply(given.f, <<OperandValue(given.args[1]).v>>)

\* C6: a call of a registered function whose arguments all evaluate yields the
\* function of its first argument alone, and with no argument it fails with
\* ArgumentCountError.
C6_Call ==
  /\ C6_FirstArgumentOnly
  /\ given.kind = "args" =>
       \A i \in EvalCalls :
         Len(given.args) = 0 => hist[i].out = Exc("ArgumentCountError")

(* C7 *)

RECURSIVE ExprOperators(_)
\* The operator slots of the tree's EXPR nodes.
ExprOperators(node) ==
  CASE node.type = "EXPR" ->
         {node.value[1]} \cup ExprOperators(node.value[2])
                         \cup ExprOperators(node.value[3])
    [] node.type = "CALL" ->
         UNION {ExprOperators(node.value[2][i]) : i \in DOMAIN node.value[2]}
    [] OTHER -> {}

HasRule(op) == BinOp(op, 1, 1) # Exc("SyntaxError")

\* C8: every operator slot of a tree that parse builds from an accepted text
\* holds an operator that eval_node applies, so evaluation never fails with an
\* unknown operator.
C8_OperatorsHaveRules ==
  /\ Returned("parse") => \A op \in ExprOperators(eq) : HasRule(op)
  /\ ~(CrashedAt("draw") /\ exc.type = "SyntaxError")

(* C9 *)

RECURSIVE CallNames(_)
CallNames(node) ==
  CASE node.type = "EXPR" -> CallNames(node.value[2]) \cup CallNames(node.value[3])
    [] node.type = "CALL" ->
         {node.value[1]}
         \cup UNION {CallNames(node.value[2][i]) : i \in DOMAIN node.value[2]}
    [] OTHER -> {}

IsIdent(name) == Len(name) > 0 /\ \A i \in DOMAIN name : name[i] \in letters

\* C9: the name of every CALL node that parse builds is the literal of an IDENT
\* token; a list in which a token of another kind follows LCURLY is rejected.
C9_CallNamesAreIdents ==
  /\ Returned("parse") => \A name \in CallNames(eq) : IsIdent(name)
  /\ (Len(tokens) >= 2 /\ tokens[1].type = "LCURLY" /\ tokens[2].type # "IDENT") =>
       ~Returned("parse")

(* C10 *)

IsSuffix(s, t) == Len(s) <= Len(t) /\ s = SubSeq(t, Len(t) - Len(s) + 1, Len(t))

\* Every parse call on a suffix of the list (the recursive calls are among
\* them) fails or returns a strictly shorter suffix of what it was given.
ParseShrinks(toks) ==
  \A i \in 1..(Len(toks) + 1) :
    LET t == SubSeq(toks, i, Len(toks))
        r == parse(t)
    IN r.exc = "" => Len(r.rest) < Len(t) /\ IsSuffix(r.rest, t)

\* C10: every iteration of tokenize's loop shortens the text that is left, and
\* every parse call that returns hands back a strictly shorter suffix of its
\* tokens, so neither the loops nor the recursion can run forever.
C10_Progress ==
  [][/\ (pc = "tokenize" /\ pc' = "tokenize") =>
          Len(code') < Len(code) /\ IsSuffix(code', code)
     /\ pc' = "parse" => ParseShrinks(tokens')]_vars

C10_Witness ==
  /\ pc = "draw"
  /\ Len(tokens) = 4
  /\ tokens[1].type = "LCURLY"
  /\ eq.type = "CALL"
  /\ Len(eq.value[2]) = 1

====
